---- MODULE Spec2Model ----
(***************************************************************************)
(* Model of components/driver/gpio/gpio_flex_glitch_filter.c: the flexible *)
(* GPIO glitch filter driver.  A static group holds a table of             *)
(* SOC_GPIO_FLEX_GLITCH_FILTER_NUM filter pointers guarded by a spinlock;  *)
(* gpio_new_flex_glitch_filter allocates an instance, registers it in the  *)
(* first empty table entry and programs the hardware unit; the handle's    *)
(* enable / disable / del callbacks drive a two-state machine.             *)
(*                                                                         *)
(* Every function is split into steps between which calls running in      *)
(* other execution contexts may run: the call, the checks at its head, one *)
(* step per hardware register write, per write of filter->fsm, per heap    *)
(* call, and two per critical section (the entry with the reads of the     *)
(* table, the exit with the write).  Local computation, and the reads and  *)
(* writes of an instance's own filter_id and group fields, are folded into *)
(* the neighbouring step.                                                  *)
(*                                                                         *)
(* A handle is the address of its instance.  free() followed by calloc()   *)
(* may hand out the same address again, so a call still running on a       *)
(* destroyed handle acts on whatever lives at that address.                *)
(***************************************************************************)
EXTENDS Integers, FiniteSets, Sequences, TLC

(***************************************************************************)
(* Bounds of the model.                                                    *)
(***************************************************************************)
\* number of execution contexts (tasks / cores) calling into the driver
NumCtx == 2
\* number of heap blocks heap_caps_calloc can hand out
NumBlocks == 3
\* size of the group's table (line 21; soc_caps.h gives the chips 8 units)
SOC_GPIO_FLEX_GLITCH_FILTER_NUM == 2
\* number of hardware commands recorded for a unit while one instance holds it
MaxCmds == 6

(***************************************************************************)
(* Program constants.                                                      *)
(***************************************************************************)
\* hal/gpio_glitch_filter_ll.h: the window registers are 6 bits wide, value+1
GPIO_LL_GLITCH_FILTER_MAX_WINDOW == 64
\* esp_clk_xtal_freq(): the crystal frequency in Hz
esp_clk_xtal_freq == 40000000
\* soc_caps.h: GPIO_IS_VALID_GPIO accepts 0 .. SOC_GPIO_PIN_COUNT - 1
SOC_GPIO_PIN_COUNT == 31
\* width of uint32_t
UINT32_BITS == 32

\* glitch_filter_fsm_t: the first enumerator is the value calloc leaves behind
GLITCH_FILTER_FSM_INIT == 0
GLITCH_FILTER_FSM_ENABLE == 1

ESP_OK == "ESP_OK"
ESP_ERR_NO_MEM == "ESP_ERR_NO_MEM"
ESP_ERR_INVALID_ARG == "ESP_ERR_INVALID_ARG"
ESP_ERR_INVALID_STATE == "ESP_ERR_INVALID_STATE"
ESP_ERR_NOT_FOUND == "ESP_ERR_NOT_FOUND"

NULL == 0
Ctx == 1..NumCtx
Blocks == 1..NumBlocks
Slots == 0..(SOC_GPIO_FLEX_GLITCH_FILTER_NUM - 1)

VARIABLES
    filters,    \* s_gpio_glitch_filter_group.filters[]: Slots -> Blocks or NULL
    spinlock,   \* s_gpio_glitch_filter_group.spinlock: the context holding it, or 0
    heap,       \* the gpio_flex_glitch_filter_t objects, by heap block
    hw,         \* the GLITCH_FILTER register block, per unit
    ctx,        \* per execution context: position and locals of the call it runs
    handles,    \* handles callers hold: returned by create, not yet destroyed
    seen,       \* history: what the table was like at points of a create of context 1
    cmds        \* history: the commands issued to each unit since its entry was taken

vars == <<filters, spinlock, heap, hw, ctx, handles, seen, cmds>>

(***************************************************************************)
(* Pure helpers.                                                           *)
(***************************************************************************)
\* line 110: clk_freq_mhz = esp_clk_xtal_freq() / 1000000
clk_freq_mhz == esp_clk_xtal_freq \div 1000000

\* 2^16: the uint32_t product below is computed on 16-bit halves, because
\* the model checker's own integers are 32-bit signed
Half == 2^(UINT32_BITS \div 2)

\* high and low half of the uint32_t product clk_freq_mhz * ns, which the C
\* code reduces modulo 2^32 (ns < 2^31, clk_freq_mhz < 2^15)
MulLo(ns) == (clk_freq_mhz * (ns % Half)) % Half
MulHi(ns) == (clk_freq_mhz * (ns \div Half) + (clk_freq_mhz * (ns % Half)) \div Half) % Half

\* lines 111-112: ticks = clk_freq_mhz * ns / 1000, in uint32_t arithmetic:
\* (MulHi * 2^16 + MulLo) / 1000 by long division
WindowTicks(ns) ==
    (MulHi(ns) \div 1000) * Half + (((MulHi(ns) % 1000) * Half + MulLo(ns)) \div 1000)

\* line 107
GPIO_IS_VALID_GPIO(gpio_num) == gpio_num >= 0 /\ gpio_num < SOC_GPIO_PIN_COUNT

\* line 113 with the threshold required to be below the width
WindowValid_strict(window_thres_ticks, window_width_ticks) ==
    /\ window_thres_ticks # 0
    /\ window_thres_ticks < window_width_ticks
    /\ window_width_ticks <= GPIO_LL_GLITCH_FILTER_MAX_WINDOW

\* line 113: the window check on the computed tick counts
WindowValid(window_thres_ticks, window_width_ticks) ==
    /\ window_thres_ticks # 0
    /\ window_thres_ticks <= window_width_ticks
    /\ window_width_ticks <= GPIO_LL_GLITCH_FILTER_MAX_WINDOW

\* the arguments of a call in which config or ret_filter is a null pointer
NullConfig == [null |-> TRUE, gpio_num |-> 0, window_width_ns |-> 0, window_thres_ns |-> 0]

\* lines 106-114: the argument checks of gpio_new_flex_glitch_filter
ConfigValid(config) ==
    /\ ~config.null
    /\ GPIO_IS_VALID_GPIO(config.gpio_num)
    /\ WindowValid(WindowTicks(config.window_thres_ns), WindowTicks(config.window_width_ns))

(***************************************************************************)
(* State.                                                                  *)
(***************************************************************************)
\* heap_caps_calloc(1, sizeof(gpio_flex_glitch_filter_t), ...): all fields zero
ZeroedObj ==
    [alloc |-> TRUE, fsm |-> 0, gpio_num |-> 0, group |-> NULL, filter_id |-> 0]

\* a block that is not allocated; what it holds cannot be relied on, so reads
\* of it are drawn from every value (see ReadFsm and ReadFilterId)
FreeObj ==
    [alloc |-> FALSE, fsm |-> 0, gpio_num |-> 0, group |-> NULL, filter_id |-> 0]

\* &s_gpio_glitch_filter_group, the only group there is
GROUP == 1

\* a hardware unit after reset
ResetUnit == [en |-> FALSE, gpio |-> 0, window_width |-> 0, window_thres |-> 0]

\* whether every entry of the table is taken
TableFull == \A s \in Slots : filters[s] # NULL

\* a context that runs no driver call; ret is what its last call returned.
\* Inside a call op names the function called, config and filter are its
\* arguments (filter also the local of gpio_new_flex_glitch_filter), filter_id,
\* j and ret the locals
Idle ==
    [pc |-> "idle", op |-> "none", config |-> NullConfig, filter |-> NULL,
     filter_id |-> -1, j |-> 0, ret |-> ESP_OK]

\* the history while context 1 runs no create
NotSeen == [full_at_call |-> FALSE, full_at_scan |-> FALSE]

\* lines 31-34: the static group, and an empty heap
Init ==
    /\ filters = [s \in Slots |-> NULL]
    /\ spinlock = 0
    /\ heap = [b \in Blocks |-> FreeObj]
    /\ hw = [s \in Slots |-> ResetUnit]
    /\ ctx = [c \in Ctx |-> Idle]
    /\ handles = {}
    /\ seen = NotSeen
    /\ cmds = [s \in Slots |-> <<>>]

\* the call of context c returns r
Return(c, r) == [Idle EXCEPT !.ret = r]

\* a read of filter->fsm and of filter->filter_id; through a dangling pointer
\* it yields what the instance now living at that address holds, or, from
\* free memory, either state and any unit
ReadFsm(b) ==
    IF heap[b].alloc THEN {heap[b].fsm}
    ELSE {GLITCH_FILTER_FSM_INIT, GLITCH_FILTER_FSM_ENABLE}
ReadFilterId(b) == IF heap[b].alloc THEN {heap[b].filter_id} ELSE Slots

\* a write of filter->fsm; through a dangling pointer it lands in the
\* instance now living at that address, or in free memory
WriteFsm(b, v) == IF heap[b].alloc THEN [heap EXCEPT ![b].fsm = v] ELSE heap

(***************************************************************************)
(* gpio_new_flex_glitch_filter                                             *)
(***************************************************************************)
\* lines 102-105: the call, with ret = ESP_OK and filter = NULL
gpio_new_flex_glitch_filter(c, config) ==
    /\ ctx[c].pc = "idle"
    /\ ctx' = [ctx EXCEPT ![c] =
                 [Idle EXCEPT !.pc = "new_check", !.op = "new", !.config = config]]
    /\ UNCHANGED <<filters, spinlock, heap, hw, handles>>

\* lines 106-114: the argument checks; a failure jumps to err with
\* filter == NULL, and lines 138-141 return ret
new_check(c) ==
    /\ ctx[c].pc = "new_check"
    /\ ctx' = [ctx EXCEPT ![c] =
                 IF ConfigValid(ctx[c].config)
                 THEN [ctx[c] EXCEPT !.pc = "new_calloc"]
                 ELSE Return(c, ESP_ERR_INVALID_ARG)]
    /\ UNCHANGED <<filters, spinlock, heap, hw, handles>>

\* lines 116-117: heap_caps_calloc returns a zeroed free block
new_calloc_ok(c) ==
    /\ ctx[c].pc = "new_calloc"
    /\ \E b \in Blocks :
         /\ ~heap[b].alloc
         /\ heap' = [heap EXCEPT ![b] = ZeroedObj]
         /\ ctx' = [ctx EXCEPT ![c].filter = b, ![c].pc = "register_enter"]
    /\ UNCHANGED <<filters, spinlock, hw, handles>>

\* lines 116-117: heap_caps_calloc returns NULL
new_calloc_fail(c) ==
    /\ ctx[c].pc = "new_calloc"
    /\ ctx' = [ctx EXCEPT ![c] = Return(c, ESP_ERR_NO_MEM)]
    /\ UNCHANGED <<filters, spinlock, heap, hw, handles>>

(***************************************************************************)
(* gpio_filter_register_to_group                                           *)
(***************************************************************************)
RECURSIVE FirstEmpty(_)

\* the loop of lines 42-48 falling back to entry 0 when no entry is empty
FirstEmpty_wrap(j) ==
    IF \E s \in Slots : s >= j /\ filters[s] = NULL
    THEN CHOOSE s \in Slots : s >= j /\ filters[s] = NULL
                              /\ \A t \in Slots : (t >= j /\ t < s) => filters[t] # NULL
    ELSE 0

\* the loop of lines 42-48 starting at j + 1
FirstEmpty_skip(j) ==
    IF \E s \in Slots : s > j /\ filters[s] = NULL
    THEN CHOOSE s \in Slots : s > j /\ filters[s] = NULL
                              /\ \A t \in Slots : (t > j /\ t < s) => filters[t] # NULL
    ELSE SOC_GPIO_FLEX_GLITCH_FILTER_NUM

\* the loop of lines 42-48 running from the last entry down
FirstEmpty_down(j) ==
    IF \E s \in Slots : s >= j /\ filters[s] = NULL
    THEN CHOOSE s \in Slots : s >= j /\ filters[s] = NULL
                              /\ \A t \in Slots : t > s => filters[t] # NULL
    ELSE SOC_GPIO_FLEX_GLITCH_FILTER_NUM

\* the first empty entry of the table at or after j, or the table's size
FirstEmpty(j) ==
    IF j >= SOC_GPIO_FLEX_GLITCH_FILTER_NUM THEN SOC_GPIO_FLEX_GLITCH_FILTER_NUM
    ELSE IF filters[j] = NULL THEN j
    ELSE FirstEmpty(j + 1)

\* lines 39-43 without the wait for the lock
register_enter_nolock(c) ==
    /\ ctx[c].pc = "register_enter"
    /\ spinlock' = c
    /\ ctx' = [ctx EXCEPT ![c].filter_id = -1, ![c].j = FirstEmpty(0),
                          ![c].pc = "register_exit"]
    /\ UNCHANGED <<filters, heap, hw, handles>>

\* lines 39-43: portENTER_CRITICAL spins until the lock is free; then the
\* loop reads the entries in increasing order up to the first empty one
register_enter(c) ==
    /\ ctx[c].pc = "register_enter"
    /\ spinlock = 0
    /\ spinlock' = c
    /\ ctx' = [ctx EXCEPT ![c].filter_id = -1, ![c].j = FirstEmpty(0),
                          ![c].pc = "register_exit"]
    /\ UNCHANGED <<filters, heap, hw, handles>>

\* lines 44-54 with a create that finds no empty entry waiting for one
register_exit_wait(c) ==
    /\ ctx[c].pc = "register_exit"
    /\ spinlock' = 0
    /\ IF ctx[c].j < SOC_GPIO_FLEX_GLITCH_FILTER_NUM
       THEN /\ filters' = [filters EXCEPT ![ctx[c].j] = ctx[c].filter]
            /\ heap' = [heap EXCEPT ![ctx[c].filter].filter_id = ctx[c].j,
                                    ![ctx[c].filter].group = GROUP]
            /\ ctx' = [ctx EXCEPT ![c].filter_id = ctx[c].j, ![c].pc = "new_hw_disable"]
       ELSE /\ ctx' = [ctx EXCEPT ![c].pc = "register_enter"]
            /\ UNCHANGED <<filters, heap>>
    /\ UNCHANGED <<hw, handles>>

\* lines 44-54 and 119-125 with the create going from the registration
\* straight to the bind of the pin
register_exit_skip(c) ==
    /\ ctx[c].pc = "register_exit"
    /\ spinlock' = 0
    /\ IF ctx[c].j < SOC_GPIO_FLEX_GLITCH_FILTER_NUM
       THEN /\ filters' = [filters EXCEPT ![ctx[c].j] = ctx[c].filter]
            /\ heap' = [heap EXCEPT ![ctx[c].filter].filter_id = ctx[c].j,
                                    ![ctx[c].filter].group = GROUP]
            /\ ctx' = [ctx EXCEPT ![c].filter_id = ctx[c].j, ![c].pc = "new_hw_set_gpio"]
       ELSE /\ ctx' = [ctx EXCEPT ![c].ret = ESP_ERR_NOT_FOUND, ![c].pc = "destroy"]
            /\ UNCHANGED <<filters, heap>>
    /\ UNCHANGED <<hw, handles>>

\* lines 44-54 without portEXIT_CRITICAL
register_exit_hold(c) ==
    /\ ctx[c].pc = "register_exit"
    /\ IF ctx[c].j < SOC_GPIO_FLEX_GLITCH_FILTER_NUM
       THEN /\ filters' = [filters EXCEPT ![ctx[c].j] = ctx[c].filter]
            /\ heap' = [heap EXCEPT ![ctx[c].filter].filter_id = ctx[c].j,
                                    ![ctx[c].filter].group = GROUP]
            /\ ctx' = [ctx EXCEPT ![c].filter_id = ctx[c].j, ![c].pc = "new_hw_disable"]
       ELSE /\ ctx' = [ctx EXCEPT ![c].ret = ESP_ERR_NOT_FOUND, ![c].pc = "destroy"]
            /\ UNCHANGED <<filters, heap>>
    /\ UNCHANGED <<spinlock, hw, handles>>

\* lines 44-54 and 119-120: take the entry found, portEXIT_CRITICAL; with no
\* entry found return ESP_ERR_NOT_FOUND, so that gpio_new_flex_glitch_filter
\* jumps to err with filter != NULL; else record the entry and the group
register_exit(c) ==
    /\ ctx[c].pc = "register_exit"
    /\ spinlock' = 0
    /\ IF ctx[c].j < SOC_GPIO_FLEX_GLITCH_FILTER_NUM
       THEN /\ filters' = [filters EXCEPT ![ctx[c].j] = ctx[c].filter]
            /\ heap' = [heap EXCEPT ![ctx[c].filter].filter_id = ctx[c].j,
                                    ![ctx[c].filter].group = GROUP]
            /\ ctx' = [ctx EXCEPT ![c].filter_id = ctx[c].j, ![c].pc = "new_hw_disable"]
       ELSE /\ ctx' = [ctx EXCEPT ![c].ret = ESP_ERR_NOT_FOUND, ![c].pc = "destroy"]
            /\ UNCHANGED <<filters, heap>>
    /\ UNCHANGED <<hw, handles>>

\* line 123 with the unit switched on
new_hw_disable_on(c) ==
    /\ ctx[c].pc = "new_hw_disable"
    /\ hw' = [hw EXCEPT ![ctx[c].filter_id].en = TRUE]
    /\ ctx' = [ctx EXCEPT ![c].pc = "new_hw_set_gpio"]
    /\ UNCHANGED <<filters, spinlock, heap, handles>>

\* line 123: gpio_ll_glitch_filter_enable(hw, filter_id, false)
new_hw_disable(c) ==
    /\ ctx[c].pc = "new_hw_disable"
    /\ hw' = [hw EXCEPT ![ctx[c].filter_id].en = FALSE]
    /\ ctx' = [ctx EXCEPT ![c].pc = "new_hw_set_gpio"]
    /\ UNCHANGED <<filters, spinlock, heap, handles>>

\* line 125: gpio_ll_glitch_filter_set_gpio(hw, filter_id, config->gpio_num)
new_hw_set_gpio(c) ==
    /\ ctx[c].pc = "new_hw_set_gpio"
    /\ hw' = [hw EXCEPT ![ctx[c].filter_id].gpio = ctx[c].config.gpio_num]
    /\ ctx' = [ctx EXCEPT ![c].pc = "new_hw_set_window_coeff"]
    /\ UNCHANGED <<filters, spinlock, heap, handles>>

\* line 127: gpio_ll_glitch_filter_set_window_coeff(hw, filter_id, width, thres)
new_hw_set_window_coeff(c) ==
    /\ ctx[c].pc = "new_hw_set_window_coeff"
    /\ hw' = [hw EXCEPT
                ![ctx[c].filter_id].window_width = WindowTicks(ctx[c].config.window_width_ns),
                ![ctx[c].filter_id].window_thres = WindowTicks(ctx[c].config.window_thres_ns)]
    /\ ctx' = [ctx EXCEPT ![c].pc = "new_finish"]
    /\ UNCHANGED <<filters, spinlock, heap, handles>>

\* lines 129-136: fill in the base object and hand the handle to the caller
new_finish(c) ==
    /\ ctx[c].pc = "new_finish"
    /\ heap' = [heap EXCEPT ![ctx[c].filter].gpio_num = ctx[c].config.gpio_num,
                            ![ctx[c].filter].fsm = GLITCH_FILTER_FSM_INIT]
    /\ handles' = handles \cup {ctx[c].filter}
    /\ ctx' = [ctx EXCEPT ![c] = Return(c, ESP_OK)]
    /\ UNCHANGED <<filters, spinlock, hw>>

(***************************************************************************)
(* gpio_filter_destroy, entered from gpio_flex_glitch_filter_del and from  *)
(* the err label of gpio_new_flex_glitch_filter                            *)
(***************************************************************************)
\* lines 59-70 without the free of an instance that has no group
destroy_leak(c) ==
    /\ ctx[c].pc = "destroy"
    /\ IF heap[ctx[c].filter].group # NULL
       THEN ctx' = [ctx EXCEPT ![c].filter_id = heap[ctx[c].filter].filter_id,
                               ![c].pc = "destroy_enter"]
       ELSE ctx' = [ctx EXCEPT ![c] =
                      Return(c, IF ctx[c].op = "new" THEN ctx[c].ret ELSE ESP_OK)]
    /\ UNCHANGED <<filters, spinlock, heap, hw, handles>>

\* lines 59-65 without the test of filter->group at line 63
destroy_nogroup(c) ==
    /\ ctx[c].pc = "destroy"
    /\ ctx' = [ctx EXCEPT ![c].filter_id = heap[ctx[c].filter].filter_id,
                          ![c].pc = "destroy_enter"]
    /\ UNCHANGED <<filters, spinlock, heap, hw, handles>>

\* lines 59-63: read filter_id, test filter->group; with no group, lines
\* 69-70 free the instance and the caller returns (line 77: ESP_OK, line
\* 141: ret)
destroy(c) ==
    /\ ctx[c].pc = "destroy"
    /\ IF heap[ctx[c].filter].group # NULL
       THEN /\ ctx' = [ctx EXCEPT ![c].filter_id = heap[ctx[c].filter].filter_id,
                                  ![c].pc = "destroy_enter"]
            /\ heap' = heap
       ELSE /\ heap' = [heap EXCEPT ![ctx[c].filter] = FreeObj]
            /\ ctx' = [ctx EXCEPT ![c] =
                         Return(c, IF ctx[c].op = "new" THEN ctx[c].ret ELSE ESP_OK)]
    /\ UNCHANGED <<filters, spinlock, hw, handles>>

\* lines 64-65 without the write of the table entry
destroy_enter_keep(c) ==
    /\ ctx[c].pc = "destroy_enter"
    /\ spinlock = 0
    /\ spinlock' = c
    /\ handles' = handles \ {ctx[c].filter}
    /\ ctx' = [ctx EXCEPT ![c].pc = "destroy_exit"]
    /\ UNCHANGED <<filters, heap, hw>>

\* lines 64-65: portENTER_CRITICAL; group->filters[filter_id] = NULL.  From
\* here on the caller's handle stands for no instance
destroy_enter(c) ==
    /\ ctx[c].pc = "destroy_enter"
    /\ spinlock = 0
    /\ spinlock' = c
    /\ filters' = [filters EXCEPT ![ctx[c].filter_id] = NULL]
    /\ handles' = handles \ {ctx[c].filter}
    /\ ctx' = [ctx EXCEPT ![c].pc = "destroy_exit"]
    /\ UNCHANGED <<heap, hw>>

\* lines 66-70: portEXIT_CRITICAL; free(filter); the caller returns
destroy_exit(c) ==
    /\ ctx[c].pc = "destroy_exit"
    /\ spinlock' = 0
    /\ heap' = [heap EXCEPT ![ctx[c].filter] = FreeObj]
    /\ ctx' = [ctx EXCEPT ![c] =
                 Return(c, IF ctx[c].op = "new" THEN ctx[c].ret ELSE ESP_OK)]
    /\ UNCHANGED <<filters, hw, handles>>

(***************************************************************************)
(* The handle's callbacks.  A caller passes a handle it holds; a handle    *)
(* is destroyed by one caller.                                             *)
(***************************************************************************)
\* the contexts that run a call on handle h
Users(h) == {c \in Ctx : ctx[c].pc # "idle" /\ ctx[c].op # "new" /\ ctx[c].filter = h}

\* lines 73-74: the call of gpio_flex_glitch_filter_del
gpio_flex_glitch_filter_del(c, h) ==
    /\ ctx[c].pc = "idle"
    /\ h \in handles
    /\ \A d \in Users(h) : ctx[d].op # "del"
    /\ ctx' = [ctx EXCEPT ![c] = [Idle EXCEPT !.pc = "del_check", !.op = "del", !.filter = h]]
    /\ UNCHANGED <<filters, spinlock, heap, hw, handles>>

\* lines 75-77 without the state check of line 75
del_check_nocheck(c) ==
    /\ ctx[c].pc = "del_check"
    /\ ctx' = [ctx EXCEPT ![c].pc = "destroy"]
    /\ UNCHANGED <<filters, spinlock, heap, hw, handles>>

\* lines 75-77: the state check, then the call of gpio_filter_destroy
del_check(c) ==
    /\ ctx[c].pc = "del_check"
    /\ \E fsm \in ReadFsm(ctx[c].filter) :
         ctx' = [ctx EXCEPT ![c] =
                   IF fsm = GLITCH_FILTER_FSM_INIT
                   THEN [ctx[c] EXCEPT !.pc = "destroy"]
                   ELSE Return(c, ESP_ERR_INVALID_STATE)]
    /\ UNCHANGED <<filters, spinlock, heap, hw, handles>>

\* lines 80-81: the call of gpio_flex_glitch_filter_enable
gpio_flex_glitch_filter_enable(c, h) ==
    /\ ctx[c].pc = "idle"
    /\ h \in handles
    /\ ctx' = [ctx EXCEPT ![c] = [Idle EXCEPT !.pc = "enable_check", !.op = "enable", !.filter = h]]
    /\ UNCHANGED <<filters, spinlock, heap, hw, handles>>

\* lines 82-85: the state check and the read of filter_id
enable_check(c) ==
    /\ ctx[c].pc = "enable_check"
    /\ \E fsm \in ReadFsm(ctx[c].filter), id \in ReadFilterId(ctx[c].filter) :
         ctx' = [ctx EXCEPT ![c] =
                   IF fsm = GLITCH_FILTER_FSM_INIT
                   THEN [ctx[c] EXCEPT !.pc = "enable_hw", !.filter_id = id]
                   ELSE Return(c, ESP_ERR_INVALID_STATE)]
    /\ UNCHANGED <<filters, spinlock, heap, hw, handles>>

\* line 86 with unit 0 in place of filter_id
enable_hw_unit0(c) ==
    /\ ctx[c].pc = "enable_hw"
    /\ hw' = [hw EXCEPT ![0].en = TRUE]
    /\ ctx' = [ctx EXCEPT ![c].pc = "enable_fsm"]
    /\ UNCHANGED <<filters, spinlock, heap, handles>>

\* line 86: gpio_ll_glitch_filter_enable(hw, filter_id, true)
enable_hw(c) ==
    /\ ctx[c].pc = "enable_hw"
    /\ hw' = [hw EXCEPT ![ctx[c].filter_id].en = TRUE]
    /\ ctx' = [ctx EXCEPT ![c].pc = "enable_fsm"]
    /\ UNCHANGED <<filters, spinlock, heap, handles>>

\* lines 87-88 without the write of filter->fsm
enable_fsm_keep(c) ==
    /\ ctx[c].pc = "enable_fsm"
    /\ ctx' = [ctx EXCEPT ![c] = Return(c, ESP_OK)]
    /\ UNCHANGED <<filters, spinlock, heap, hw, handles>>

\* lines 87-88: filter->fsm = GLITCH_FILTER_FSM_ENABLE; return ESP_OK
enable_fsm(c) ==
    /\ ctx[c].pc = "enable_fsm"
    /\ heap' = WriteFsm(ctx[c].filter, GLITCH_FILTER_FSM_ENABLE)
    /\ ctx' = [ctx EXCEPT ![c] = Return(c, ESP_OK)]
    /\ UNCHANGED <<filters, spinlock, hw, handles>>

\* lines 91-92: the call of gpio_flex_glitch_filter_disable
gpio_flex_glitch_filter_disable(c, h) ==
    /\ ctx[c].pc = "idle"
    /\ h \in handles
    /\ ctx' = [ctx EXCEPT ![c] = [Idle EXCEPT !.pc = "disable_check", !.op = "disable", !.filter = h]]
    /\ UNCHANGED <<filters, spinlock, heap, hw, handles>>

\* lines 93-96: the state check and the read of filter_id
disable_check(c) ==
    /\ ctx[c].pc = "disable_check"
    /\ \E fsm \in ReadFsm(ctx[c].filter), id \in ReadFilterId(ctx[c].filter) :
         ctx' = [ctx EXCEPT ![c] =
                   IF fsm = GLITCH_FILTER_FSM_ENABLE
                   THEN [ctx[c] EXCEPT !.pc = "disable_hw", !.filter_id = id]
                   ELSE Return(c, ESP_ERR_INVALID_STATE)]
    /\ UNCHANGED <<filters, spinlock, heap, hw, handles>>

\* line 97 leaving the enable register as it is
disable_hw_keep(c) ==
    /\ ctx[c].pc = "disable_hw"
    /\ ctx' = [ctx EXCEPT ![c].pc = "disable_fsm"]
    /\ UNCHANGED <<filters, spinlock, heap, hw, handles>>

\* line 97: gpio_ll_glitch_filter_enable(hw, filter_id, false)
disable_hw(c) ==
    /\ ctx[c].pc = "disable_hw"
    /\ hw' = [hw EXCEPT ![ctx[c].filter_id].en = FALSE]
    /\ ctx' = [ctx EXCEPT ![c].pc = "disable_fsm"]
    /\ UNCHANGED <<filters, spinlock, heap, handles>>

\* lines 98-99: filter->fsm = GLITCH_FILTER_FSM_INIT; return ESP_OK
disable_fsm(c) ==
    /\ ctx[c].pc = "disable_fsm"
    /\ heap' = WriteFsm(ctx[c].filter, GLITCH_FILTER_FSM_INIT)
    /\ ctx' = [ctx EXCEPT ![c] = Return(c, ESP_OK)]
    /\ UNCHANGED <<filters, spinlock, hw, handles>>

(***************************************************************************)
(* Specifications.                                                         *)
(***************************************************************************)
\* the configurations callers pass in Spec and SpecExcl: one inside the
\* bounds, on pin 4, and one with an invalid pin (GPIO_NUM_NC)
Configs ==
    { [null |-> FALSE, gpio_num |-> 4, window_width_ns |-> 1600, window_thres_ns |-> 25],
      [null |-> FALSE, gpio_num |-> -1, window_width_ns |-> 1600, window_thres_ns |-> 25] }

\* the steps inside gpio_new_flex_glitch_filter
CreateStep(c) ==
    \/ new_check(c)
    \/ new_calloc_ok(c)
    \/ new_calloc_fail(c)
    \/ register_enter(c)
    \/ register_exit(c)
    \/ new_hw_disable(c)
    \/ new_hw_set_gpio(c)
    \/ new_hw_set_window_coeff(c)
    \/ new_finish(c)

\* the steps inside gpio_flex_glitch_filter_del and gpio_filter_destroy
DestroyStep(c) ==
    \/ del_check(c)
    \/ destroy(c)
    \/ destroy_enter(c)
    \/ destroy_exit(c)

\* the steps inside the enable and disable callbacks
SwitchStep(c) ==
    \/ enable_check(c)
    \/ enable_hw(c)
    \/ enable_fsm(c)
    \/ disable_check(c)
    \/ disable_hw(c)
    \/ disable_fsm(c)

\* the history of a step, kept for the creates of one context, context 1:
\* whether the table was full when the create was called and when it scanned
\* the table under the lock; forgotten when the create returns
Observe ==
    seen' = IF ctx'[1].pc = "idle" THEN NotSeen
            ELSE IF ctx[1].pc = "idle" /\ ctx'[1].op = "new"
                 THEN [NotSeen EXCEPT !.full_at_call = TableFull]
            ELSE IF ctx[1].pc = "register_enter" /\ ctx'[1].pc = "register_exit"
                 THEN [seen EXCEPT !.full_at_scan = TableFull]
            ELSE seen

\* any context calls any function on any handle handed out, at any time
Next ==
    /\ \E c \in Ctx :
          \/ \E config \in Configs : gpio_new_flex_glitch_filter(c, config)
          \/ \E h \in Blocks : gpio_flex_glitch_filter_del(c, h)
          \/ \E h \in Blocks : gpio_flex_glitch_filter_enable(c, h)
          \/ \E h \in Blocks : gpio_flex_glitch_filter_disable(c, h)
          \/ CreateStep(c)
          \/ DestroyStep(c)
          \/ SwitchStep(c)
    /\ UNCHANGED <<seen, cmds>>

Spec == Init /\ [][Next]_vars

\* as Next, but a callback is called on a handle only while no other call on
\* that handle is running: each handle is used by one context at a time
NextExcl ==
    /\ \E c \in Ctx :
          \/ \E config \in Configs : gpio_new_flex_glitch_filter(c, config)
          \/ \E h \in Blocks : Users(h) = {} /\ gpio_flex_glitch_filter_del(c, h)
          \/ \E h \in Blocks : Users(h) = {} /\ gpio_flex_glitch_filter_enable(c, h)
          \/ \E h \in Blocks : Users(h) = {} /\ gpio_flex_glitch_filter_disable(c, h)
          \/ CreateStep(c)
          \/ DestroyStep(c)
          \/ SwitchStep(c)
    /\ UNCHANGED <<seen, cmds>>

SpecExcl == Init /\ [][NextExcl]_vars

\* every context creates and destroys filters at any time
NextAlloc ==
    /\ \E c \in Ctx :
          \/ \E config \in Configs : gpio_new_flex_glitch_filter(c, config)
          \/ \E h \in Blocks : gpio_flex_glitch_filter_del(c, h)
          \/ CreateStep(c)
          \/ DestroyStep(c)
    /\ UNCHANGED <<seen, cmds>>

SpecAlloc == Init /\ [][NextAlloc]_vars

\* as NextAlloc, with the history of the table kept for the creates of context 1
NextSeen ==
    /\ \E c \in Ctx :
          \/ \E config \in Configs : gpio_new_flex_glitch_filter(c, config)
          \/ \E h \in Blocks : gpio_flex_glitch_filter_del(c, h)
          \/ CreateStep(c)
          \/ DestroyStep(c)
    /\ Observe
    /\ UNCHANGED cmds

SpecSeen == Init /\ [][NextSeen]_vars

\* window lengths in ns around the limits of line 113 at 40 MHz: 24 ns is 0
\* ticks, 25 ns is 1, 1600 ns is 64, 1625 ns is 65; 107374208 ns is
\* 4294968 ticks, and 40 * 107374208 exceeds 2^32
WindowNs == {0, 24, 25, 1600, 1625, 107374208}

\* the configurations callers pass in SpecWindow: null arguments, every pair
\* of window lengths on pin 4, and a good window on the pins next to the
\* valid range
WindowConfigs ==
    {NullConfig} \cup
    [null : {FALSE}, gpio_num : {4},
     window_width_ns : WindowNs, window_thres_ns : WindowNs] \cup
    [null : {FALSE}, gpio_num : {-1, SOC_GPIO_PIN_COUNT},
     window_width_ns : {1600}, window_thres_ns : {25}]

\* one context creates and destroys filters, with every window configuration
NextWindow ==
    /\ \/ \E config \in WindowConfigs : gpio_new_flex_glitch_filter(1, config)
       \/ \E h \in Blocks : gpio_flex_glitch_filter_del(1, h)
       \/ CreateStep(1)
       \/ DestroyStep(1)
    /\ UNCHANGED <<seen, cmds>>

SpecWindow == Init /\ [][NextWindow]_vars

(***************************************************************************)
(* Properties.                                                             *)
(***************************************************************************)
\* the table entries that are taken
Occupied == {s \in Slots : filters[s] # NULL}

\* context c runs a create that has taken a table entry
Registered(c) ==
    ctx[c].pc \in {"new_hw_disable", "new_hw_set_gpio", "new_hw_set_window_coeff", "new_finish"}

\* context c is about to write a hardware register of unit ctx[c].filter_id
\* on behalf of instance ctx[c].filter
AtHwWrite(c) ==
    ctx[c].pc \in {"new_hw_disable", "new_hw_set_gpio", "new_hw_set_window_coeff",
                   "enable_hw", "disable_hw"}

\* context c has passed the state check of enable or disable and has not yet
\* finished its register write and state update
InSwitch(c) == ctx[c].pc \in {"enable_hw", "enable_fsm", "disable_hw", "disable_fsm"}

\* context c takes a step inside a call of o that makes the call return
Returns(c, o) == ctx[c].op = o /\ ctx'[c].pc = "idle"

\* context c takes the step at position p of the call it runs
Steps(c, p) == ctx[c].pc = p /\ ctx'[c] # ctx[c]

\* C1: the number of handles that a create has returned and no destroy has
\* released never exceeds the number of table entries.
C1_AllocatedWithinSlots ==
    Cardinality(handles) <= SOC_GPIO_FLEX_GLITCH_FILTER_NUM

\* C1 witness: every unit is handed out, and one more create has got its
\* memory and found no entry.
C1_Witness ==
    /\ Cardinality(handles) = SOC_GPIO_FLEX_GLITCH_FILTER_NUM
    /\ \E c \in Ctx : ctx[c].op = "new" /\ ctx[c].pc = "destroy"

\* C2: creates that run at the same time never hold the same table entry:
\* two registered creates have different filter_id, each entry they hold
\* points to its own instance, and the same is true of the handles returned.
C2_DistinctSlots ==
    /\ \A c1, c2 \in Ctx :
         (c1 # c2 /\ Registered(c1) /\ Registered(c2)) =>
            /\ ctx[c1].filter_id # ctx[c2].filter_id
            /\ ctx[c1].filter # ctx[c2].filter
    /\ \A c \in Ctx :
         Registered(c) =>
            /\ ctx[c].filter_id \in Slots
            /\ filters[ctx[c].filter_id] = ctx[c].filter
            /\ \A h \in handles : heap[h].filter_id # ctx[c].filter_id
    /\ \A h \in handles : filters[heap[h].filter_id] = h
    /\ \A h1, h2 \in handles : h1 # h2 => heap[h1].filter_id # heap[h2].filter_id

\* C2 witness: two contexts are inside create at once, both past the
\* registration, each holding an entry.
C2_Witness ==
    \E c1, c2 \in Ctx : c1 # c2 /\ Registered(c1) /\ Registered(c2)

\* C3 (as claimed): whenever a context is about to write a register of a
\* unit, the table entry of that unit points to the instance the write is
\* made for.
C3_WritesOnlyByOwner ==
    \A c \in Ctx : AtHwWrite(c) => filters[ctx[c].filter_id] = ctx[c].filter

\* C4 (as claimed): no two contexts are at once between the state check and
\* the end of the register write and state update for the same unit.
C4_OneWriterPerUnit ==
    \A c1, c2 \in Ctx :
        (c1 # c2 /\ InSwitch(c1) /\ InSwitch(c2)) => ctx[c1].filter_id # ctx[c2].filter_id

\* C5 (as claimed): a create returns ESP_ERR_NOT_FOUND if and only if every
\* table entry was taken when it was called (stated for the creates of
\* context 1, while the other contexts create and destroy at any time).
C5_NotFoundIffFullAtCall ==
    [][Returns(1, "new") => (ctx'[1].ret = ESP_ERR_NOT_FOUND <=> seen.full_at_call)]_vars

\* C5 (amended): a create returns ESP_ERR_NOT_FOUND if and only if it passed
\* the argument checks, got its memory, and every table entry was taken when
\* it scanned the table under the lock.
C5_NotFoundIffFullAtScan ==
    [][Returns(1, "new") => (ctx'[1].ret = ESP_ERR_NOT_FOUND <=> seen.full_at_scan)]_vars

\* C5 witness: a create is on its way out with ESP_ERR_NOT_FOUND, having
\* found every entry taken at its scan, although an entry was free when it
\* was called.
C5_Witness ==
    /\ ctx[1].op = "new" /\ ctx[1].pc = "destroy"
    /\ ctx[1].ret = ESP_ERR_NOT_FOUND
    /\ seen.full_at_scan /\ ~seen.full_at_call

\* the call of context c is rejected with ESP_ERR_INVALID_STATE, without any
\* hardware command and with the instances and the table left as they were
RejectedUntouched(c) ==
    /\ ctx'[c].pc = "idle"
    /\ ctx'[c].ret = ESP_ERR_INVALID_STATE
    /\ UNCHANGED <<heap, hw, filters, handles>>

\* C6: enable is accepted exactly in state initial, disable exactly in state
\* enabled, destroy exactly in state initial; a rejected call returns
\* ESP_ERR_INVALID_STATE, issues no hardware command and changes neither
\* the instance nor the table; an accepted enable issues the enable command
\* to the instance's unit and moves initial -> enabled, an accepted disable
\* issues the disable command and moves enabled -> initial, an accepted
\* destroy releases the entry and the memory of an instance in state initial.
C6_StateGuards ==
    [][\A c \in Ctx :
        LET h == ctx[c].filter IN
        /\ Steps(c, "enable_check") =>
              IF heap[h].fsm = GLITCH_FILTER_FSM_INIT
              THEN ctx'[c].pc = "enable_hw" /\ UNCHANGED <<heap, hw, filters, handles>>
              ELSE RejectedUntouched(c)
        /\ Steps(c, "disable_check") =>
              IF heap[h].fsm = GLITCH_FILTER_FSM_ENABLE
              THEN ctx'[c].pc = "disable_hw" /\ UNCHANGED <<heap, hw, filters, handles>>
              ELSE RejectedUntouched(c)
        /\ Steps(c, "del_check") =>
              IF heap[h].fsm = GLITCH_FILTER_FSM_INIT
              THEN ctx'[c].pc = "destroy" /\ UNCHANGED <<heap, hw, filters, handles>>
              ELSE RejectedUntouched(c)
        /\ Steps(c, "enable_hw") =>
              /\ hw'[heap[h].filter_id].en
              /\ filters[heap[h].filter_id] = h
        /\ Steps(c, "enable_fsm") =>
              /\ heap[h].fsm = GLITCH_FILTER_FSM_INIT
              /\ heap'[h].fsm = GLITCH_FILTER_FSM_ENABLE
              /\ ctx'[c].pc = "idle" /\ ctx'[c].ret = ESP_OK
        /\ Steps(c, "disable_hw") =>
              /\ ~hw'[heap[h].filter_id].en
              /\ filters[heap[h].filter_id] = h
        /\ Steps(c, "disable_fsm") =>
              /\ heap[h].fsm = GLITCH_FILTER_FSM_ENABLE
              /\ heap'[h].fsm = GLITCH_FILTER_FSM_INIT
              /\ ctx'[c].pc = "idle" /\ ctx'[c].ret = ESP_OK
        /\ (ctx[c].op = "del" /\ Steps(c, "destroy_enter")) =>
              /\ heap[h].fsm = GLITCH_FILTER_FSM_INIT
              /\ filters[heap[h].filter_id] = h
              /\ filters'[heap[h].filter_id] = NULL
        /\ (ctx[c].op = "del" /\ Steps(c, "destroy_exit")) =>
              /\ ~heap'[h].alloc
              /\ ctx'[c].pc = "idle" /\ ctx'[c].ret = ESP_OK
    ]_vars

\* C6 witness: one context has had a call rejected with
\* ESP_ERR_INVALID_STATE while another is inside an accepted disable, and a
\* second instance is enabled.
C6_Witness ==
    \E c1, c2 \in Ctx :
        /\ ctx[c1].pc = "idle" /\ ctx[c1].ret = ESP_ERR_INVALID_STATE
        /\ ctx[c2].pc = "disable_fsm"
        /\ \E h \in handles \ {ctx[c2].filter} : heap[h].fsm = GLITCH_FILTER_FSM_ENABLE

\* the blocks a running create or destroy holds: allocated, and either not
\* yet handed to the caller or not yet freed
InFlight ==
    {ctx[c].filter : c \in {d \in Ctx :
        ctx[d].pc \in {"register_enter", "register_exit", "new_hw_disable",
                       "new_hw_set_gpio", "new_hw_set_window_coeff", "new_finish",
                       "destroy", "destroy_enter", "destroy_exit"}}}

\* every taken table entry belongs to a live handle or to a create that is
\* still running and has registered, and every allocated block is a live
\* handle or is held by a create or destroy that is still running
NoLeak ==
    /\ {filters[s] : s \in Occupied} =
          handles \cup {ctx[c].filter : c \in {d \in Ctx : Registered(d)}}
    /\ Cardinality(Occupied) =
          Cardinality(handles \cup {ctx[c].filter : c \in {d \in Ctx : Registered(d)}})
    /\ {b \in Blocks : heap[b].alloc} = handles \cup InFlight

\* C7: no create failure leaks: the step by which a create returns an error
\* hands out no handle and leaves the table as it is, after it the instance
\* of that create is not allocated and no entry points to it, and at all
\* times every taken entry and every allocated block is accounted for by a
\* live handle or a call that is still running.
C7_NoLeakOnFailure ==
    [][/\ NoLeak
       /\ NoLeak'
       /\ \A c \in Ctx :
            (Returns(c, "new") /\ ctx'[c].ret # ESP_OK) =>
               /\ handles' = handles
               /\ filters' = filters
               /\ \A s \in Slots : filters[s] = NULL \/ filters[s] # ctx[c].filter
               /\ ctx[c].filter # NULL => ~heap'[ctx[c].filter].alloc
    ]_vars

\* C7 witness: a create has failed for want of a free entry, after it had
\* allocated its instance, with every entry taken, while another create is
\* about to fail its argument checks.
C7_Witness ==
    \E c1, c2 \in Ctx :
        /\ ctx[c1].pc = "idle" /\ ctx[c1].ret = ESP_ERR_NOT_FOUND
        /\ ctx[c2].pc = "new_check" /\ ~ConfigValid(ctx[c2].config)
        /\ Cardinality(handles) = SOC_GPIO_FLEX_GLITCH_FILTER_NUM

\* the window of the configuration context c was called with, in ticks
Thres(c) == WindowTicks(ctx[c].config.window_thres_ns)
Width(c) == WindowTicks(ctx[c].config.window_width_ns)

\* C8: with the tick counts as the code computes them, a create fails with
\* ESP_ERR_INVALID_ARG when the threshold is 0 ticks, when the threshold
\* exceeds the width, and when the width exceeds the hardware maximum; with
\* 0 < threshold <= width <= maximum and a valid pin it passes its argument
\* checks, and then succeeds unless memory or the table is exhausted.
C8_WindowBounds ==
    [][\A c \in Ctx :
        (ctx[c].op = "new" /\ ~ctx[c].config.null) =>
            /\ (/\ Steps(c, "new_check")
                /\ (Thres(c) = 0 \/ Thres(c) > Width(c)
                      \/ Width(c) > GPIO_LL_GLITCH_FILTER_MAX_WINDOW)) =>
                  ctx'[c].pc = "idle" /\ ctx'[c].ret = ESP_ERR_INVALID_ARG
            /\ (/\ 0 < Thres(c) /\ Thres(c) <= Width(c)
                /\ Width(c) <= GPIO_LL_GLITCH_FILTER_MAX_WINDOW
                /\ ctx[c].config.gpio_num \in 0..(SOC_GPIO_PIN_COUNT - 1)) =>
                  /\ Steps(c, "new_check") => ctx'[c].pc = "new_calloc"
                  /\ Returns(c, "new") =>
                        /\ ctx'[c].ret \in {ESP_OK, ESP_ERR_NO_MEM, ESP_ERR_NOT_FOUND}
                        /\ ctx'[c].ret = ESP_ERR_NO_MEM => ctx[c].pc = "new_calloc"
                        /\ ctx'[c].ret = ESP_ERR_NOT_FOUND => TableFull
                        /\ ctx'[c].ret = ESP_OK =>
                              /\ ctx[c].filter \in handles'
                              /\ hw[ctx[c].filter_id].window_width = Width(c)
                              /\ hw[ctx[c].filter_id].window_thres = Thres(c)
    ]_vars

\* C8 witness: a create at the limits, with threshold = width = maximum, has
\* succeeded.
C8_Witness ==
    \E h \in handles :
        /\ hw[heap[h].filter_id].window_width = GPIO_LL_GLITCH_FILTER_MAX_WINDOW
        /\ hw[heap[h].filter_id].window_thres = GPIO_LL_GLITCH_FILTER_MAX_WINDOW

\* floor(clk_freq_mhz * ns / 1000) without the reduction modulo 2^32, again on
\* 16-bit halves of ns
ExactTicks(ns) ==
    LET hi == clk_freq_mhz * (ns \div Half)
        lo == clk_freq_mhz * (ns % Half) IN
    (hi \div 1000) * Half + (((hi % 1000) * Half + lo) \div 1000)

\* C9 (as claimed): the tick counts of every configuration that has passed
\* the argument checks of create are floor(clk_mhz * ns / 1000), and no
\* window wider than the hardware maximum has passed them.
C9_NoOverflow ==
    \A c \in Ctx :
        (ctx[c].op = "new" /\ ctx[c].pc # "new_check") =>
            /\ Width(c) = ExactTicks(ctx[c].config.window_width_ns)
            /\ Thres(c) = ExactTicks(ctx[c].config.window_thres_ns)
            /\ ExactTicks(ctx[c].config.window_width_ns) <= GPIO_LL_GLITCH_FILTER_MAX_WINDOW

\* C10: a create takes the lowest empty entry: while it holds the lock after
\* its scan, the entry it is about to take is empty and every lower entry is
\* taken; and the entry a registered create holds is the one it took.
C10_LowestFreeIndex ==
    \A c \in Ctx :
        /\ (ctx[c].pc = "register_exit" /\ ctx[c].j < SOC_GPIO_FLEX_GLITCH_FILTER_NUM) =>
              /\ ctx[c].j \in Slots
              /\ filters[ctx[c].j] = NULL
              /\ \A s \in Slots : s < ctx[c].j => filters[s] # NULL
        /\ (ctx[c].pc = "register_exit" /\ ctx[c].j >= SOC_GPIO_FLEX_GLITCH_FILTER_NUM) =>
              TableFull
        /\ Registered(c) =>
              /\ filters[ctx[c].filter_id] = ctx[c].filter
              /\ heap[ctx[c].filter].filter_id = ctx[c].filter_id

\* C10 witness: with every entry taken, the instance in an entry other than
\* the last was destroyed, and the next create is about to take that entry
\* again while every other entry is still taken.
C10_Witness ==
    \E c \in Ctx :
        /\ ctx[c].pc = "register_exit"
        /\ ctx[c].j = SOC_GPIO_FLEX_GLITCH_FILTER_NUM - 2
        /\ \A s \in Slots \ {ctx[c].j} : filters[s] \in handles

\* no context is inside a call of the driver
Quiescent == \A c \in Ctx : ctx[c].pc = "idle"

\* C11: whenever no call is in progress, the instances that are live (handed
\* out by a create and not destroyed) are exactly the instances the table
\* entries refer to, each live instance is referred to by the entry at its
\* filter_id and by no other entry, and every instance an entry refers to is
\* allocated; and at all times the entry at the filter_id of a live instance
\* refers to it.
C11_OwnershipInvariant ==
    /\ \A h \in handles :
         /\ heap[h].alloc
         /\ heap[h].group = GROUP
         /\ heap[h].filter_id \in Slots
         /\ filters[heap[h].filter_id] = h
    /\ Quiescent =>
         /\ \A b \in Blocks :
              b \in handles <=> (heap[b].alloc /\ filters[heap[b].filter_id] = b)
         /\ \A s \in Slots :
              filters[s] # NULL =>
                 /\ filters[s] \in handles
                 /\ heap[filters[s]].alloc
                 /\ heap[filters[s]].filter_id = s
         /\ \A b \in Blocks : heap[b].alloc <=> b \in handles

\* C11 witness: no call is in progress, one instance is live in an entry
\* other than the first, and the first entry is empty again after the
\* destroy of its instance.
C11_Witness ==
    /\ Quiescent
    /\ filters[0] = NULL
    /\ \E h \in handles : heap[h].filter_id # 0

(***************************************************************************)
(* The history of hardware commands, and one caller.                       *)
(***************************************************************************)
\* the command that the register write of context c issues in a step: which
\* register, by the function of gpio_glitch_filter_ll.h called, and for the
\* enable register the value that the step leaves in it
HwCommand(c) ==
    IF ctx[c].pc = "new_hw_set_gpio" THEN "bind"
    ELSE IF ctx[c].pc = "new_hw_set_window_coeff" THEN "coeff"
    ELSE IF hw'[ctx[c].filter_id].en THEN "enable"
    ELSE "disable"

\* the history of a step: the table entry of a unit being taken starts the
\* record of the unit afresh, a register write is added to the record of the
\* unit written
Record ==
    cmds' = [s \in Slots |->
               IF filters[s] = NULL /\ filters'[s] # NULL THEN <<>>
               ELSE IF \E c \in Ctx : AtHwWrite(c) /\ Steps(c, ctx[c].pc) /\ ctx[c].filter_id = s
                    THEN Append(cmds[s],
                                HwCommand(CHOOSE c \in Ctx : AtHwWrite(c) /\ Steps(c, ctx[c].pc)
                                                             /\ ctx[c].filter_id = s))
               ELSE cmds[s]]

\* the handle h has room in the record of its unit for one more command
Room(h) == Len(cmds[heap[h].filter_id]) < MaxCmds

\* one context calls the functions one after the other, on any handle it
\* holds, with the commands recorded; it switches an instance on or off
\* while the record of the unit has room
NextSeq ==
    /\ \/ \E config \in Configs : gpio_new_flex_glitch_filter(1, config)
       \/ \E h \in Blocks : gpio_flex_glitch_filter_del(1, h)
       \/ \E h \in Blocks : Room(h) /\ gpio_flex_glitch_filter_enable(1, h)
       \/ \E h \in Blocks : Room(h) /\ gpio_flex_glitch_filter_disable(1, h)
       \/ CreateStep(1)
       \/ DestroyStep(1)
       \/ SwitchStep(1)
    /\ Record
    /\ UNCHANGED seen

SpecSeq == Init /\ [][NextSeq]_vars


\* the positions in the record s of a unit at which the command is x
Positions(s, x) == {i \in 1..Len(s) : s[i] = x}

\* C12: no step of a create switches a unit on; and when a create returns
\* success the instance is in state initial, its unit is off, and of the
\* commands issued to the unit since the create took its entry none is an
\* enable and exactly one is a disable.
C12_CreateLeavesDisabled ==
    [][\A c \in Ctx :
        (ctx[c].op = "new" /\ Steps(c, ctx[c].pc)) =>
            /\ \A s \in Slots : hw'[s].en => hw[s].en
            /\ Steps(c, "new_finish") =>
                  /\ ctx'[c].pc = "idle" /\ ctx'[c].ret = ESP_OK
                  /\ ctx[c].filter \in handles'
                  /\ heap'[ctx[c].filter].fsm = GLITCH_FILTER_FSM_INIT
                  /\ ~hw'[ctx[c].filter_id].en
                  /\ Positions(cmds[ctx[c].filter_id], "enable") = {}
                  /\ Cardinality(Positions(cmds[ctx[c].filter_id], "disable")) = 1
    ]_vars

\* C12 witness: a create has just returned an instance, in state initial
\* with its unit off, in an entry next to that of an enabled instance.
C12_Witness ==
    /\ Quiescent
    /\ \E h, g \in handles :
         /\ Len(cmds[heap[h].filter_id]) = 3
         /\ heap[h].fsm = GLITCH_FILTER_FSM_INIT /\ ~hw[heap[h].filter_id].en
         /\ heap[g].fsm = GLITCH_FILTER_FSM_ENABLE /\ hw[heap[g].filter_id].en


\* the live instances on whose unit exactly five commands were issued since
\* their create took the entry: those taken through create, enable, disable
EnabledThenDisabled ==
    {h \in handles : Len(cmds[heap[h].filter_id]) = 5}

\* C13 (as claimed): for an instance taken through create, then enable, then
\* disable, the state is initial again and the commands issued to its unit
\* are, in this order: bind, set-coefficients, disable, enable, disable.
C13_SequenceAsClaimed ==
    Quiescent =>
        \A h \in EnabledThenDisabled :
            /\ heap[h].fsm = GLITCH_FILTER_FSM_INIT
            /\ cmds[heap[h].filter_id] = <<"bind", "coeff", "disable", "enable", "disable">>

\* C13 (amended): for an instance taken through create, then enable, then
\* disable, the state is initial again, its unit is off, and the commands
\* issued to its unit are, in this order and with no other command: disable,
\* bind, set-coefficients, enable, disable.
C13_SequenceDisableFirst ==
    Quiescent =>
        \A h \in EnabledThenDisabled :
            /\ heap[h].fsm = GLITCH_FILTER_FSM_INIT
            /\ ~hw[heap[h].filter_id].en
            /\ cmds[heap[h].filter_id] = <<"disable", "bind", "coeff", "enable", "disable">>

\* C13 witness: an instance has been created, enabled and disabled, and no
\* call is in progress.
C13_Witness ==
    /\ Quiescent
    /\ EnabledThenDisabled # {}


\* the last command of the record s of a unit is the last one of a create or
\* that of a disable: the unit was last written by the create of its
\* instance or by a disable
LastCreateOrDisable(s) ==
    /\ Len(s) >= 3
    /\ s[Len(s)] \in {"coeff", "disable"}
    /\ s[Len(s)] = "coeff" => Len(s) = 3
    /\ s[Len(s)] = "disable" => s[Len(s) - 1] = "enable"

\* C14: a destroy is accepted, and releases the entry, only when the last
\* successful call on the handle was its create or a disable, never an
\* enable: at the state check that lets a destroy pass and at the step that
\* clears the entry the instance is in state initial, its unit is off, and
\* the last command issued to the unit is the last one of the create or the
\* one of a disable.
C14_NoEnabledToDestroyed ==
    [][\A c \in Ctx :
        ((Steps(c, "del_check") /\ ctx'[c].pc = "destroy")
            \/ (ctx[c].op = "del" /\ Steps(c, "destroy_enter"))) =>
            LET h == ctx[c].filter IN
            /\ heap[h].fsm = GLITCH_FILTER_FSM_INIT
            /\ ~hw[heap[h].filter_id].en
            /\ LastCreateOrDisable(cmds[heap[h].filter_id])
            /\ Steps(c, "destroy_enter") =>
                  /\ filters'[heap[h].filter_id] = NULL
                  /\ ~hw'[heap[h].filter_id].en
    ]_vars

\* C14 witness: a destroy has released the entry of an instance that had
\* been enabled and disabled, while another instance is enabled.
C14_Witness ==
    \E c \in Ctx :
        /\ ctx[c].op = "del" /\ ctx[c].pc = "destroy_exit"
        /\ filters[ctx[c].filter_id] = NULL
        /\ Len(cmds[ctx[c].filter_id]) >= 5
        /\ \E h \in handles : heap[h].fsm = GLITCH_FILTER_FSM_ENABLE


(***************************************************************************)
(* Fair scheduling.                                                        *)
(***************************************************************************)
\* a step of context c inside the call it runs
Running(c) ==
    /\ CreateStep(c) \/ DestroyStep(c) \/ SwitchStep(c)
    /\ UNCHANGED <<seen, cmds>>

\* context c takes the lock: portENTER_CRITICAL of lines 41 and 64
TakesLock(c) ==
    /\ register_enter(c) \/ destroy_enter(c)
    /\ UNCHANGED <<seen, cmds>>

\* every context that can take a step of its call in the end takes one, and
\* a context spinning on the lock, which is free again and again, in the end
\* gets it; callers are free to stop calling
Fairness ==
    \A c \in Ctx : WF_vars(Running(c)) /\ SF_vars(TakesLock(c))

\* any context calls any function on any handle at any time, and the calls
\* are scheduled fairly
SpecFair == Init /\ [][Next]_vars /\ Fairness

\* C15: every call of create, enable, disable or destroy returns in the end.
C15_EveryCallReturns ==
    \A c \in Ctx : (ctx[c].pc # "idle") ~> (ctx[c].pc = "idle")

\* C15 witness: a create that found every entry taken holds the lock while
\* another context spins on it.
C15_Witness ==
    \E c1, c2 \in Ctx :
        /\ spinlock = c1 /\ ctx[c1].pc = "register_exit"
        /\ ctx[c1].j = SOC_GPIO_FLEX_GLITCH_FILTER_NUM
        /\ ctx[c2].pc \in {"register_enter", "destroy_enter"}


\* C16: a create issues hardware commands only to the unit of the entry it
\* holds, after it has taken the entry and before it sets the state and
\* hands out the handle, and they are, in this order: disable, bind of the
\* pin, window coefficients; the last step then finds the unit off and
\* programmed with the pin and the window of the configuration.
C16_CreateProgramsInOrder ==
    [][\A c \in Ctx :
        (ctx[c].op = "new" /\ Steps(c, ctx[c].pc)) =>
            LET id == ctx[c].filter_id
                h == ctx[c].filter IN
            /\ \A s \in Slots :
                 (Len(cmds'[s]) > Len(cmds[s]) \/ hw'[s] # hw[s]) =>
                    /\ Registered(c) /\ ctx[c].pc # "new_finish"
                    /\ s = id
                    /\ filters[s] = h
                    /\ h \notin handles
            /\ ctx[c].pc = "new_hw_disable" =>
                  cmds[id] = <<>> /\ cmds'[id] = <<"disable">>
            /\ ctx[c].pc = "new_hw_set_gpio" =>
                  cmds[id] = <<"disable">> /\ cmds'[id] = <<"disable", "bind">>
            /\ ctx[c].pc = "new_hw_set_window_coeff" =>
                  cmds[id] = <<"disable", "bind">>
                     /\ cmds'[id] = <<"disable", "bind", "coeff">>
            /\ ctx[c].pc = "new_finish" =>
                  /\ cmds[id] = <<"disable", "bind", "coeff">>
                  /\ hw[id] = [en |-> FALSE, gpio |-> ctx[c].config.gpio_num,
                               window_width |-> Width(c), window_thres |-> Thres(c)]
                  /\ heap'[h].fsm = GLITCH_FILTER_FSM_INIT
                  /\ handles' = handles \cup {h}
                  /\ ctx'[c].pc = "idle" /\ ctx'[c].ret = ESP_OK
    ]_vars

\* C16 witness: a create has issued its three commands to its unit and is
\* about to set the state and hand out the handle, while the instance of
\* another unit has been enabled and disabled.
C16_Witness ==
    \E c \in Ctx :
        /\ ctx[c].pc = "new_finish"
        /\ cmds[ctx[c].filter_id] = <<"disable", "bind", "coeff">>
        /\ \E s \in Slots : s # ctx[c].filter_id /\ Len(cmds[s]) >= 5


\* context c is inside the critical section: it has taken the lock and has
\* read, or cleared, table entries, and its next step writes the entry found
\* (if any) and leaves
InCritical(c) == ctx[c].pc \in {"register_exit", "destroy_exit"}

\* C17: the lock is held exactly by the contexts inside the critical section
\* of the registration or of the destroy, and by one at most; it is taken
\* only by the steps that enter these two; a context that holds it is not at
\* a register write, and the steps that take it and that leave with it
\* change no hardware register: they read and write the table only.
C17_LockCoversTableOnly ==
    [][/\ \A c \in Ctx : (spinlock = c) <=> InCritical(c)
       /\ \A c \in Ctx : spinlock = c => ~AtHwWrite(c)
       /\ \A c \in Ctx :
            Steps(c, ctx[c].pc) =>
               /\ (spinlock # c /\ spinlock' = c) =>
                     /\ ctx[c].pc \in {"register_enter", "destroy_enter"}
                     /\ spinlock = 0
               /\ (spinlock = c \/ spinlock' = c) =>
                     /\ hw' = hw
                     /\ spinlock = c => spinlock' = 0
               /\ ctx[c].op \in {"enable", "disable"} => UNCHANGED <<spinlock, filters>>
    ]_vars

\* C17 witness: one context is inside the critical section while another,
\* outside it, is at a register write.
C17_Witness ==
    \E c1, c2 \in Ctx :
        /\ spinlock = c1 /\ InCritical(c1)
        /\ AtHwWrite(c2)


\* context c is in the cleanup of a create (line 139), from the failed
\* registration on
InCleanup(c) ==
    /\ ctx[c].op = "new"
    /\ \/ ctx[c].pc \in {"destroy", "destroy_enter", "destroy_exit"}
       \/ ctx[c].pc = "register_exit" /\ ctx[c].j = SOC_GPIO_FLEX_GLITCH_FILTER_NUM

\* C18: the cleanup of a create that found no free entry works on an instance
\* with no group and with filter_id 0, and no step of it, from the failed
\* registration to the return, changes an entry of the table: entry 0, which
\* belongs to another instance, keeps its owner.  The cleanup frees the
\* instance and the create returns ESP_ERR_NOT_FOUND.
C18_CleanupLeavesTable ==
    [][\A c \in Ctx :
         (InCleanup(c) /\ Steps(c, ctx[c].pc)) =>
            /\ heap[ctx[c].filter].group = NULL
            /\ heap[ctx[c].filter].filter_id = 0
            /\ filters' = filters
            /\ ctx[c].pc = "destroy" =>
                  /\ Returns(c, "new")
                  /\ ctx'[c].ret = ESP_ERR_NOT_FOUND
                  /\ heap'[ctx[c].filter] = FreeObj
    ]_vars

\* C18 witness: a create has returned ESP_ERR_NOT_FOUND and every entry,
\* entry 0 included, still refers to a live instance.
C18_Witness ==
    \E c \in Ctx :
        /\ ctx[c].pc = "idle"
        /\ ctx[c].ret = ESP_ERR_NOT_FOUND
        /\ TableFull
        /\ filters[0] \in handles


\* the unit of every entry is enabled exactly if the entry is taken by an
\* instance in state enabled
HwAgrees ==
    \A s \in Slots :
        hw[s].en <=> (filters[s] # NULL /\ heap[filters[s]].fsm = GLITCH_FILTER_FSM_ENABLE)

\* C19: with each handle used by one context at a time, whenever no call is
\* running the unit of an entry is enabled exactly if the entry is taken by
\* an instance in state enabled, so the unit of an empty entry is disabled;
\* and a step of a call on one instance changes neither the entry, nor the
\* fields, nor the registers of the unit of an entry that another instance
\* holds.
C19_HwMatchesState ==
    [][/\ Quiescent => HwAgrees
       /\ Quiescent' => HwAgrees'
       /\ \A c \in Ctx :
            Steps(c, ctx[c].pc) =>
               \A s \in Slots :
                  (filters[s] # NULL /\ filters[s] # ctx[c].filter) =>
                     /\ filters'[s] = filters[s]
                     /\ heap'[filters[s]] = heap[filters[s]]
                     /\ hw'[s] = hw[s]
    ]_vars

\* C19 witness: no call is running, both entries are taken, the instance of
\* entry 1 is enabled and so is unit 1, the instance of entry 0 is in state
\* initial and unit 0 is disabled.
C19_Witness ==
    /\ Quiescent
    /\ TableFull
    /\ heap[filters[1]].fsm = GLITCH_FILTER_FSM_ENABLE /\ hw[1].en
    /\ heap[filters[0]].fsm = GLITCH_FILTER_FSM_INIT /\ ~hw[0].en


(***************************************************************************)
(* Calls of enable and disable racing on the handles, with no del: every   *)
(* context creates filters and calls enable and disable on any handle at   *)
(* any time, also while another call on that handle is running.            *)
(***************************************************************************)
NextSwitch ==
    /\ \E c \in Ctx :
          \/ \E config \in Configs : gpio_new_flex_glitch_filter(c, config)
          \/ \E h \in Blocks : gpio_flex_glitch_filter_enable(c, h)
          \/ \E h \in Blocks : gpio_flex_glitch_filter_disable(c, h)
          \/ CreateStep(c)
          \/ destroy(c)
          \/ SwitchStep(c)
    /\ UNCHANGED <<seen, cmds>>

SpecSwitch == Init /\ [][NextSwitch]_vars

\* C20: whenever no call is running, every instance is in state enabled
\* exactly if its unit is enabled, also after enable and disable calls that
\* raced on one handle.
C20_StateMatchesUnit ==
    Quiescent =>
        \A h \in handles :
            (heap[h].fsm = GLITCH_FILTER_FSM_ENABLE) <=> hw[heap[h].filter_id].en

====
